---- MODULE Spec2Model ----
(***************************************************************************)
(* energy_py: the time-series environment base class (envs/env.py) and the *)
(* REINFORCE agent (agents/reinforce.py), as a state machine of the calls  *)
(* a caller can make on one environment/agent pair.                        *)
(*                                                                         *)
(* A Python attribute that has not been assigned does not exist: `attrs`   *)
(* is the set of attribute names of `self` that exist, and reading one     *)
(* that is not in it raises AttributeError.  Every call records the        *)
(* exception it ended with in `err` ("none" when it returned).             *)
(***************************************************************************)
EXTENDS Integers, Sequences, FiniteSets, TLC

\* ---------------------------------------------------------------- bounds
MaxTable   == 3   \* rows of the dataset table: 0..MaxTable
MaxCfg     == 4   \* configured episode_length: 0..MaxCfg (beyond MaxTable)
MaxOverrun == 1   \* steps taken past the episode end before the model stops
MaxInfo    == 1   \* entries kept per diagnostic list
MaxLearn   == 2   \* learn calls per run
MaxActionSize == 2 \* elements of the action handed to step: 1..MaxActionSize
MaxBatch   == 2   \* steps in the batch handed to learn: 1..MaxBatch
MaxAct     == 2   \* act calls per run

InfoNames   == {"a", "b"}      \* keyword names given to update_info
OutputNames == {"o"}           \* keys written to self.outputs
SampleModes == {"fixed", "random", "other"}   \* values of self.episode_sample
ArgModes    == {"fixed", "random"}            \* values of the argument
Discounts   == {0, 1}          \* the discount, at the two ends of [0, 1]
RewardValues == {-1, 2}        \* rewards of a step
MeanValues  == {0, 1}          \* means the policy puts out
StdevValues == {1, 2}          \* standard deviations the policy puts out
LossValues  == {5}             \* losses policy.improve returns
ObsShort    == {0, 2}          \* rows the observation table has fewer than the state table

VARIABLES
    table_length,        \* self.state_space.shape[0]
    obs_table_length,    \* self.observation_space.shape[0]
    assertions,          \* assert statements run (FALSE under python -O)
    cfg_episode_length,  \* the episode_length argument of __init__
    arg_episode_sample,  \* the episode_sample argument of __init__
    cls_episode_sample,  \* self.episode_sample as it is before __init__ runs
    phase,               \* "new", "constructed", "failed"
    attrs,               \* names of the attributes of self that exist
    episode_sample,      \* self.episode_sample
    episode_length,      \* self.episode_length
    info,                \* self.info    (name -> list)
    outputs,             \* self.outputs (name -> list)
    steps,               \* self.steps, the step counter
    done,                \* the done flag of the latest step
    window,              \* <<start, end>> of the latest sampler call, or <<>>
    episode,             \* <<rows of state episode, rows of observation episode>>
    lastOp,              \* the latest call
    err,                 \* the exception the latest call raised, or "none"
    pre,                 \* lifecycle state in which the latest call was made
    preDiag,             \* info or outputs held an entry when it was made
    everDone,            \* some step has returned done = true
    learnCalls,          \* calls of learn
    improveCalls,        \* invocations of policy.improve
    episodes,            \* episodes completed: reset, steps to done, one learn
    learned,             \* learn was called since the latest reset
    offProtocol,         \* learn was called other than once at an episode's end
    agent,               \* "none", "constructed": the REINFORCE agent
    discount,            \* the agent's discount
    policy_improve,      \* what policy.improve does when invoked: "returns", "raises"
    memory_info,         \* self.memory.info (<<name, index>> -> list)
    output,              \* means and stdevs of the latest policy.get_action
    actCalls,            \* calls of act
    batch,               \* the batch of the latest learn call
    returns              \* the returns the latest learn call handed to the normalizer

vars == <<table_length, obs_table_length, assertions, cfg_episode_length, arg_episode_sample,
          cls_episode_sample, phase, attrs, episode_sample, episode_length,
          info, outputs, steps, done, window, episode, lastOp, err, pre,
          preDiag, everDone, learnCalls, improveCalls, episodes, learned, offProtocol,
          agent, discount, policy_improve, memory_info, output, actCalls,
          batch, returns>>

config == <<table_length, obs_table_length, assertions, cfg_episode_length, arg_episode_sample, cls_episode_sample>>
learnVars == <<learnCalls, improveCalls, episodes, learned, offProtocol>>
agentVars == <<learnVars, agent, discount, policy_improve, memory_info,
               output, actCalls, batch, returns>>

\* ---------------------------------------------------------------- helpers
Min(a, b) == IF a <= b THEN a ELSE b
Max(a, b) == IF a >= b THEN a ELSE b

EmptyMap == [n \in {} |-> <<>>]

\* collections.defaultdict(list): d[name].append(data)
MapAppend(d, name, data) ==
    IF name \in DOMAIN d
    THEN [d EXCEPT ![name] = Append(@, data)]
    ELSE d @@ (name :> <<data>>)

\* int(episode_length) on the integers the model configures
IntOf(x) == x

\* the lifecycle state of the environment
State ==
    IF "steps" \notin attrs THEN "UNINITIALIZED"
    ELSE IF done THEN "DONE" ELSE "READY"

\* the call `op` starts: what the run remembers of the state it starts in
Called(op) ==
    /\ lastOp' = op
    /\ pre' = State
    /\ preDiag' = (info # EmptyMap \/ outputs # EmptyMap)

\* ------------------------------------------------- pieces outside src/
\* number of elements of one action, the product of self.action_space.shape
ActionSize == 1

\* GlobalSpace.sample_episode(start, end): rows of table[start:end]
SliceIndex(rows, i) == IF i < 0 THEN Max(0, rows + i) ELSE Min(i, rows)
SliceRows(rows, start, end) ==
    Max(0, SliceIndex(rows, end) - SliceIndex(rows, start))

\* _reset(): the step counter goes to 0 and no step has ended the episode
ResetCounter == 0

\* _reset(): returns the first observation of the episode, which an
\* observation episode of no rows does not have
FirstObservation(obs_rows) == IF obs_rows = 0 THEN "IndexError" ELSE "none"

\* _step(action): the counter after one more step
StepCounter(n) == n + 1

\* (variant: done one step before the counter reaches the episode length)
StepDone_early(n, length) == n = length - 1

\* _step(action): done is set when the counter reaches the episode length
StepDone(n, length) == n = length

\* ---------------------------------------------------------------- __init__
\* (variant: a value that is neither 'random' nor 'fixed' falls back to fixed)
BindSampler_default(es) ==
    IF es = "random" THEN "random_sample" ELSE "fixed_sample"

\* lines 39-43: what self.episode_sample is bound to after the two tests
BindSampler(es) ==
    IF es = "random" THEN "random_sample"
    ELSE IF es = "fixed" THEN "fixed_sample"
    ELSE es

\* (variant: the configured length taken as it is, without the min)
EffectiveLength_unclamped(cfg, rows) == IntOf(cfg)

\* lines 45-48: self.episode_length
EffectiveLength(cfg, rows) == Min(IntOf(cfg), rows)

Init ==
    /\ table_length \in 0..MaxTable
    /\ obs_table_length \in {Max(0, table_length - k) : k \in ObsShort}
    /\ assertions \in BOOLEAN
    /\ cfg_episode_length \in 0..MaxCfg
    /\ arg_episode_sample \in ArgModes
    /\ cls_episode_sample \in SampleModes \cup {"absent"}
    /\ phase = "new"
    /\ attrs = IF cls_episode_sample = "absent" THEN {} ELSE {"episode_sample"}
    /\ episode_sample = cls_episode_sample
    /\ episode_length = 0
    /\ info = EmptyMap
    /\ outputs = EmptyMap
    /\ steps = 0
    /\ done = FALSE
    /\ window = <<>>
    /\ episode = <<>>
    /\ lastOp = "none"
    /\ err = "none"
    /\ pre = "UNINITIALIZED"
    /\ preDiag = FALSE
    /\ everDone = FALSE
    /\ learnCalls = 0
    /\ improveCalls = 0
    /\ episodes = 0
    /\ learned = FALSE
    /\ offProtocol = FALSE
    /\ agent = "none"
    /\ discount = 0
    /\ policy_improve = "returns"
    /\ memory_info = EmptyMap
    /\ output = <<>>
    /\ actCalls = 0
    /\ batch = <<>>
    /\ returns = <<>>

\* BaseEnv.__init__(dataset, episode_sample, episode_length)
Construct ==
    /\ phase = "new"
    /\ Called("__init__")
    /\ IF "episode_sample" \notin attrs
       THEN \* line 39 reads self.episode_sample, which nothing has assigned
            /\ err' = "AttributeError"
            /\ phase' = "failed"
            /\ attrs' = attrs \cup {"state_space", "observation_space"}
            /\ UNCHANGED <<episode_sample, episode_length>>
       ELSE /\ err' = "none"
            /\ phase' = "constructed"
            /\ episode_sample' = BindSampler(episode_sample)
            /\ episode_length' = EffectiveLength(cfg_episode_length, table_length)
            /\ attrs' = attrs \cup {"state_space", "observation_space",
                                    "episode_length", "action_space"}
    /\ UNCHANGED <<config, info, outputs, steps, done, window, episode,
                   everDone, agentVars>>

\* ---------------------------------------------------------------- samplers
Raised(e) == [err |-> e, start |-> 0, end |-> 0]
Window(s, e) == [err |-> "none", start |-> s, end |-> e]

\* BaseEnv.fixed_sample: with episode_length == 0, ep_len is the 1-tuple
\* (rows,) (line 119 ends with a comma) and start + ep_len adds the int
\* rows - 0 to a tuple
fixed_sample(rows, length) ==
    IF length = 0
    THEN Raised("TypeError")
    ELSE Window(rows - length, (rows - length) + length)

\* (variant: an empty range yields 0 instead of raising)
RandInt_lenient(high) == IF high <= 0 THEN {0} ELSE 0..(high - 1)

\* (variant: high is inclusive, as it is for random.randint)
RandInt_inclusive(high) == IF high < 0 THEN {} ELSE 0..high

\* np.random.randint(low=0, high=h): ValueError unless low < high
RandInt(high) == IF high <= 0 THEN {} ELSE 0..(high - 1)

\* (variant: high is the table length, the episode length not subtracted)
random_sample_whole_table(rows, length) ==
    IF RandInt(rows) = {}
    THEN {Raised("ValueError")}
    ELSE {Window(s, s + length) : s \in RandInt(rows)}

\* BaseEnv.random_sample: every outcome of one call
random_sample(rows, length) ==
    IF RandInt(rows - length) = {}
    THEN {Raised("ValueError")}
    ELSE {Window(s, s + length) : s \in RandInt(rows - length)}

\* line 102: self.episode_sample()
CallSampler(es, rows, length) ==
    IF es = "fixed_sample" THEN {fixed_sample(rows, length)}
    ELSE IF es = "random_sample" THEN random_sample(rows, length)
    ELSE {Raised("TypeError")}   \* a str is not callable

\* BaseEnv.sample_episode: the sampler's outcome, then the two slices and
\* the assertion that they have as many rows
sample_episode(o) ==
    IF o.err # "none" THEN [err |-> o.err, window |-> <<>>, episode |-> episode]
    ELSE LET state_ep == SliceRows(table_length, o.start, o.end)
             obs_ep == SliceRows(obs_table_length, o.start, o.end)
         IN [err |-> IF assertions /\ state_ep # obs_ep
                     THEN "AssertionError" ELSE "none",
             window |-> <<o.start, o.end>>,
             episode |-> <<state_ep, obs_ep>>]

\* ---------------------------------------------------------------- reset
\* (variant: the mappings of the previous episode are kept)
NewDiagnostics_kept(old) == old

\* lines 59-60: self.info and self.outputs become fresh defaultdict(list)
NewDiagnostics(old) == EmptyMap

\* (variant: reset returns without delegating to _reset)
DelegateReset_skipped(e, counter) == counter

\* line 70: _reset() runs when nothing before it raised
DelegateReset(e, counter) == IF e = "none" THEN ResetCounter ELSE counter

\* BaseEnv.reset: fresh info and outputs, then sample_episode, then the
\* debug line that reads episode.index[0] and episode.index[-1], then _reset
reset ==
    /\ phase = "constructed"
    /\ Called("reset")
    /\ info' = NewDiagnostics(info)
    /\ outputs' = NewDiagnostics(outputs)
    /\ \E o \in CallSampler(episode_sample, table_length, episode_length) :
         LET r == sample_episode(o)
             e == IF r.err # "none" THEN r.err
                  ELSE IF r.episode[1] = 0 THEN "IndexError"
                  ELSE FirstObservation(r.episode[2])
         IN /\ err' = e
            /\ window' = r.window
            /\ episode' = r.episode
            /\ IF e = "none"
               THEN /\ steps' = DelegateReset(e, steps)
                    /\ done' = FALSE
                    /\ attrs' = attrs \cup {"info", "outputs", "steps"}
               ELSE /\ UNCHANGED <<steps, done>>
                    /\ attrs' = attrs \cup {"info", "outputs"}
    /\ learned' = FALSE
    /\ UNCHANGED <<config, phase, episode_sample, episode_length, everDone,
                   learnCalls, improveCalls, episodes, offProtocol,
                   agent, discount, policy_improve, memory_info, output,
                   actCalls, batch, returns>>

\* ---------------------------------------------------------------- step
\* BaseEnv.step(action): reshape to (1, *action_space.shape), the debug
\* line that reads self.steps, then _step
step(size) ==
    /\ phase = "constructed"
    /\ "steps" \in attrs => steps < episode_length + MaxOverrun
    /\ Called("step")
    /\ IF size # ActionSize
       THEN /\ err' = "ValueError"
            /\ UNCHANGED <<steps, done, everDone>>
       ELSE IF "steps" \notin attrs
       THEN /\ err' = "AttributeError"
            /\ UNCHANGED <<steps, done, everDone>>
       ELSE /\ err' = "none"
            /\ steps' = StepCounter(steps)
            /\ done' = StepDone(steps', episode_length)
            /\ everDone' = (everDone \/ done')
    /\ UNCHANGED <<config, phase, attrs, episode_sample, episode_length, info,
                   outputs, window, episode, agentVars>>

\* ---------------------------------------------------------------- diagnostics
\* BaseEnv.update_info(**kwargs): kwargs maps each given name to its datum
update_info(kwargs) ==
    /\ phase = "constructed"
    /\ \A n \in DOMAIN kwargs : n \in DOMAIN info => Len(info[n]) < MaxInfo
    /\ Called("update_info")
    /\ IF "info" \notin attrs
       THEN /\ err' = "AttributeError"
            /\ info' = info
       ELSE /\ err' = "none"
            /\ info' = [n \in DOMAIN info \cup DOMAIN kwargs |->
                           IF n \in DOMAIN kwargs
                           THEN MapAppend(info, n, kwargs[n])[n]
                           ELSE info[n]]
    /\ UNCHANGED <<config, phase, attrs, episode_sample, episode_length,
                   outputs, steps, done, window, episode, everDone, agentVars>>

\* self.outputs[name].append(data), as a caller or a subclass writes it
AppendOutput(name, data) ==
    /\ phase = "constructed"
    /\ name \in DOMAIN outputs => Len(outputs[name]) < MaxInfo
    /\ Called("outputs")
    /\ IF "outputs" \notin attrs
       THEN /\ err' = "AttributeError"
            /\ outputs' = outputs
       ELSE /\ err' = "none"
            /\ outputs' = MapAppend(outputs, name, data)
    /\ UNCHANGED <<config, phase, attrs, episode_sample, episode_length,
                   info, steps, done, window, episode, everDone, agentVars>>

\* ---------------------------------------------------------------- samplers, called directly
FixedSampleCall ==
    /\ phase = "constructed"
    /\ Called("fixed_sample")
    /\ LET o == fixed_sample(table_length, episode_length)
       IN /\ err' = o.err
          /\ window' = IF o.err = "none" THEN <<o.start, o.end>> ELSE <<>>
    /\ UNCHANGED <<config, phase, attrs, episode_sample, episode_length, info,
                   outputs, steps, done, episode, everDone, agentVars>>

RandomSampleCall ==
    /\ phase = "constructed"
    /\ Called("random_sample")
    /\ \E o \in random_sample(table_length, episode_length) :
          /\ err' = o.err
          /\ window' = IF o.err = "none" THEN <<o.start, o.end>> ELSE <<>>
    /\ UNCHANGED <<config, phase, attrs, episode_sample, episode_length, info,
                   outputs, steps, done, episode, everDone, agentVars>>

\* ---------------------------------------------------------------- agent
\* REINFORCE.__init__(env, discount, policy, lr)
AgentInit(d, p) ==
    /\ phase = "constructed"
    /\ agent = "none"
    /\ Called("REINFORCE")
    /\ err' = "none"
    /\ agent' = "constructed"
    /\ discount' = d
    /\ policy_improve' = p
    /\ memory_info' = EmptyMap
    /\ UNCHANGED <<config, phase, attrs, episode_sample, episode_length, info,
                   outputs, steps, done, window, episode, everDone, learnVars,
                   output, actCalls, batch, returns>>

\* the list under key k of a defaultdict(list)
Entries(d, k) == IF k \in DOMAIN d THEN d[k] ELSE <<>>

\* lines 78-79: what 'mean i' gains, i counted from 1 here and from 0 in the key
MeanEntry(means, stdevs, i) == means[i]

\* lines 81-82: what 'stdevs i' gains: the loop appends `mean`, the variable
\* the loop of lines 78-79 left at the last mean
StdevEntry(means, stdevs, i) == means[Len(means)]

\* lines 78-88: self.memory.info after one act
ActInfo(d, means, stdevs, scaled, action) ==
    LET gained ==
            [k \in {<<"mean", i - 1>> : i \in 1..Len(means)}
                   \cup {<<"stdevs", i - 1>> : i \in 1..Len(stdevs)}
                   \cup {<<"scaled_obs", 0>>, <<"action", 0>>} |->
                IF k[1] = "mean" THEN <<MeanEntry(means, stdevs, k[2] + 1)>>
                ELSE IF k[1] = "stdevs" THEN <<StdevEntry(means, stdevs, k[2] + 1)>>
                ELSE IF k[1] = "scaled_obs" THEN scaled
                ELSE action]
    IN [k \in DOMAIN d \cup DOMAIN gained |->
            IF k \in DOMAIN gained THEN Entries(d, k) \o gained[k]
            ELSE d[k]]

\* REINFORCE._act(observation=..., session=...): the policy puts out an
\* action with the means and stdevs of its distribution
act(means, stdevs) ==
    /\ agent = "constructed"
    /\ actCalls < MaxAct
    /\ Called("act")
    /\ err' = "none"
    /\ actCalls' = actCalls + 1
    /\ output' = [means |-> means, stdevs |-> stdevs]
    /\ memory_info' = ActInfo(memory_info, means, stdevs,
                              <<0>>, [i \in 1..ActionSize |-> 0])
    /\ UNCHANGED <<config, phase, attrs, episode_sample, episode_length, info,
                   outputs, steps, done, window, episode, everDone, learnVars,
                   agent, discount, policy_improve, batch, returns>>

\* ---------------------------------------------------------------- learn
RECURSIVE ReturnFrom(_, _, _)
\* the return of step t: r[t] at the last step, r[t] + g * return of t + 1 before
ReturnFrom(r, g, t) ==
    IF t >= Len(r) THEN r[t] ELSE r[t] + g * ReturnFrom(r, g, t + 1)

\* (variant: the recursion run forwards, each return built on the one before)
RECURSIVE ReturnUpTo(_, _, _)
ReturnUpTo(r, g, t) ==
    IF t <= 1 THEN r[t] ELSE r[t] + g * ReturnUpTo(r, g, t - 1)
calculate_returns_forwards(r, g) == [t \in 1..Len(r) |-> ReturnUpTo(r, g, t)]

\* memory.calculate_returns(rewards): the Monte Carlo discounted returns
calculate_returns(r, g) == [t \in 1..Len(r) |-> ReturnFrom(r, g, t)]

\* REINFORCE._learn pops only 'batch' from kwargs: session is no name of
\* its scope when line 122 evaluates the arguments of policy.improve
SessionBound == FALSE

\* REINFORCE._learn(batch=b): b holds the rows of obs and of actions and
\* the rewards
learn(b) ==
    /\ agent = "constructed"
    /\ learnCalls < MaxLearn
    /\ Called("learn")
    /\ learnCalls' = learnCalls + 1
    /\ learned' = TRUE
    /\ LET atEpisodeEnd == State = "DONE" /\ ~learned
       IN /\ episodes' = IF atEpisodeEnd THEN episodes + 1 ELSE episodes
          /\ offProtocol' = (offProtocol \/ ~atEpisodeEnd)
    /\ batch' = b
    /\ returns' = calculate_returns(b.rewards, discount)
    /\ IF SessionBound
       THEN /\ improveCalls' = improveCalls + 1
            /\ IF policy_improve = "raises"
               THEN /\ err' = "ImproveError"
                    /\ memory_info' = memory_info
               ELSE /\ err' = "none"
                    /\ \E loss \in LossValues :
                         memory_info' =
                             [k \in DOMAIN memory_info \cup {<<"losses", 0>>} |->
                                 IF k = <<"losses", 0>>
                                 THEN Append(Entries(memory_info, k), loss)
                                 ELSE memory_info[k]]
       ELSE /\ err' = "NameError"
            /\ improveCalls' = improveCalls
            /\ memory_info' = memory_info
    /\ UNCHANGED <<config, phase, attrs, episode_sample, episode_length, info,
                   outputs, steps, done, window, episode, everDone,
                   agent, discount, policy_improve, output, actCalls>>

\* ---------------------------------------------------------------- specification
\* sequences over S of 1 to n elements
SeqsUpTo(S, n) == UNION {[1..k -> S] : k \in 1..n}

\* the batches handed to learn: rows of obs and actions as many as the
\* rewards, or one more
Batches ==
    {b \in [obs : 1..(MaxBatch + 1), actions : 1..(MaxBatch + 1),
            rewards : SeqsUpTo(RewardValues, MaxBatch)] :
        /\ b.obs \in {Len(b.rewards), Len(b.rewards) + 1}
        /\ b.actions \in {Len(b.rewards), Len(b.rewards) + 1}}

\* the batch the training loop hands over after n steps: a row and a reward
\* for every step
EpisodeBatches(n) ==
    {b \in Batches : b.obs = n /\ b.actions = n /\ b.rewards = [t \in 1..n |-> 2]}

\* the policy's outputs: means and stdevs, one per action dimension
Means == [1..ActionSize -> MeanValues]
Stdevs == [1..ActionSize -> StdevValues]

InfoData == {1}
Kwargs == UNION {[S -> InfoData] : S \in SUBSET InfoNames}

\* the calls on the environment
NextEnv ==
    \/ Construct
    \/ reset
    \/ \E size \in 1..MaxActionSize : step(size)
    \/ \E kwargs \in Kwargs : update_info(kwargs)
    \/ \E name \in OutputNames, data \in InfoData : AppendOutput(name, data)
    \/ FixedSampleCall
    \/ RandomSampleCall

\* the training loop: episodes of the environment and the agent's calls
NextAgent ==
    \/ Construct
    \/ reset
    \/ \E size \in 1..MaxActionSize : step(size)
    \/ \E d \in Discounts : AgentInit(d, "returns")
    \/ \E b \in EpisodeBatches(steps) : learn(b)

\* the agent on its own: the policy's outputs and the batches of every shape
NextLearner ==
    \/ Construct
    \/ \E d \in Discounts, p \in {"returns", "raises"} : AgentInit(d, p)
    \/ \E means \in Means, stdevs \in Stdevs : act(means, stdevs)
    \/ \E b \in Batches : learn(b)

Next == NextEnv \/ NextAgent \/ NextLearner

Spec == Init /\ [][Next]_vars

\* learn leaves every variable of the environment unchanged, and no call on
\* the environment reads a variable of the agent
SpecEnv == Init /\ [][NextEnv]_vars

\* the diagnostics and the direct sampler calls leave the agent unchanged
InitAgent == Init /\ assertions /\ obs_table_length = table_length
SpecAgent == InitAgent /\ [][NextAgent]_vars

\* act and learn read no variable of the environment: one environment
InitLearner ==
    /\ InitAgent
    /\ table_length = 1 /\ cfg_episode_length = 1
    /\ cls_episode_sample = "fixed" /\ arg_episode_sample = "fixed"
SpecLearner == InitLearner /\ [][NextLearner]_vars

TypeOK ==
    /\ phase \in {"new", "constructed", "failed"}
    /\ steps \in 0..(MaxTable + MaxOverrun + 1)
    /\ episode_length \in 0..MaxTable
    /\ improveCalls <= learnCalls

\* ================================================================ claims
N == table_length
L == episode_length

\* the latest call ran the fixed sampler / the random sampler
FixedCalled ==
    /\ phase = "constructed"
    /\ \/ lastOp = "fixed_sample"
       \/ lastOp = "reset" /\ episode_sample = "fixed_sample"
RandomCalled ==
    /\ phase = "constructed"
    /\ \/ lastOp = "random_sample"
       \/ lastOp = "reset" /\ episode_sample = "random_sample"

\* C1: every call of the fixed sampler, for every 0 <= episode_length <=
\* table_length, returns start = table_length - episode_length and
\* end = table_length; stated for the tables that have rows.  (The code
\* raises TypeError when episode_length is 0.)
C1_FixedSamplingDeterminism ==
    (FixedCalled /\ N >= 1 /\ 0 <= L /\ L <= N) => window = <<N - L, N>>

\* C2: every draw of the random sampler with table_length > episode_length
\* returns a window with 0 <= start <= table_length - episode_length and
\* end - start = episode_length, hence end <= table_length.
C2_RandomSamplingBounds ==
    (RandomCalled /\ N > L) =>
        /\ window # <<>>
        /\ 0 <= window[1]
        /\ window[1] <= N - L
        /\ window[2] - window[1] = L
        /\ window[2] <= N

\* a reset in random mode that drew a window other than the first one
C2_Witness ==
    /\ RandomCalled /\ lastOp = "reset" /\ err = "none"
    /\ N > L /\ window # <<>> /\ window[1] > 0

\* C3: from construction on, the effective episode length is
\* min(configured episode_length, table_length), the table length when more
\* was configured, and no reset or step changes it.
C3_EpisodeLengthClamping ==
    phase = "constructed" =>
        /\ L = Min(cfg_episode_length, N)
        /\ cfg_episode_length > N => L = N

\* an episode run to its end with more configured than the table holds
C3_Witness ==
    /\ phase = "constructed"
    /\ cfg_episode_length > N
    /\ lastOp = "step" /\ State = "DONE" /\ L = N

\* C4: with a configured episode_length of 0 the fixed sampler does not fail
\* and every reset selects start = 0, end = table_length; stated for the
\* tables that have rows.  (The code raises TypeError: the full-length
\* fallback is a 1-tuple.)
C4_ZeroMeansFullTable ==
    (FixedCalled /\ N >= 1 /\ cfg_episode_length = 0) =>
        (err = "none" /\ window = <<0, N>>)

\* the latest call was a step whose action has the action space's shape
StepCalled == lastOp = "step" /\ err # "ValueError"

\* C5: step on an environment never reset fails with LifecycleError and
\* makes no transition.  (The code has no such check: AttributeError.)
C5_StepBeforeReset ==
    (StepCalled /\ pre = "UNINITIALIZED") =>
        (err = "LifecycleError" /\ State = "UNINITIALIZED")

\* C6: no step is accepted in state DONE: a step made after done = true was
\* returned, with no reset in between, fails with LifecycleError.  (The
\* code has no such check: the step is delegated.)
C6_DoneIsTerminal ==
    (StepCalled /\ pre = "DONE") => err = "LifecycleError"

\* C7: over N completed episodes (reset, steps up to done, one learn call)
\* policy.improve is invoked exactly N times.  (The code raises NameError
\* before the invocation: improve is never invoked.)
C7_OneUpdatePerEpisode ==
    ~offProtocol => improveCalls = episodes

\* C8: a step returns done = true exactly when it brings the step counter
\* to the effective episode length, so an episode that is done has taken
\* exactly that many steps.
C8_EpisodeTermination ==
    /\ (lastOp = "step" /\ err = "none") =>
           (done <=> steps = Min(cfg_episode_length, N))
    /\ State = "DONE" => steps = Min(cfg_episode_length, N)

\* the last step of an episode of several steps
C8_Witness ==
    lastOp = "step" /\ err = "none" /\ pre = "READY" /\ done /\ steps >= 2

\* the state table and the observation table have as many rows
Aligned == obs_table_length = table_length

\* whether reset succeeds is decided by the configuration alone
Resettable ==
    /\ L >= 1
    /\ \/ episode_sample = "fixed_sample"
       \/ episode_sample = "random_sample" /\ N > L

\* C9: reset is accepted in every lifecycle state (whether it succeeds does
\* not depend on the state it is called in), a reset that returns leaves
\* the machine READY with the step counter at 0, and a reset made after
\* done = true was returned always returns; stated for state and
\* observation tables of as many rows.
C9_ResetReturnsToReady ==
    (lastOp = "reset" /\ Aligned) =>
        /\ err = "none" <=> Resettable
        /\ err = "none" => (State = "READY" /\ steps = 0)
        /\ everDone => err = "none"
        /\ pre # "UNINITIALIZED" => err = "none"

\* a reset made in state DONE, after an episode of several steps
C9_Witness ==
    Aligned /\ lastOp = "reset" /\ pre = "DONE" /\ L >= 2 /\ State = "READY" /\ steps = 0

\* C10: immediately after any reset the info and outputs mappings are
\* empty, whatever step and update_info calls came before.
C10_ResetClearsDiagnostics ==
    lastOp = "reset" => (info = EmptyMap /\ outputs = EmptyMap)

\* a reset of an environment whose mappings held entries
C10_Witness ==
    lastOp = "reset" /\ preDiag /\ info = EmptyMap /\ outputs = EmptyMap

C12_SamplerFromArgument ==
    phase # "new" =>
        /\ phase = "constructed"
        /\ episode_sample = BindSampler(arg_episode_sample)

\* C13: a reset whose state slice and observation slice differ in row count
\* fails with EpisodeMismatchError instead of returning an observation;
\* stated for slices that both have rows.  (The code asserts: AssertionError,
\* and nothing under python -O.)
C13_MismatchFails ==
    (/\ lastOp = "reset" /\ window # <<>>
     /\ episode[1] # episode[2] /\ episode[1] >= 1 /\ episode[2] >= 1) =>
        err = "EpisodeMismatchError"

\* the latest learn call's rewards, and the discount of the agent
Rewards == batch.rewards
T == Len(Rewards)

RECURSIVE Power(_, _)
Power(g, k) == IF k = 0 THEN 1 ELSE g * Power(g, k - 1)

RECURSIVE DiscountedSum(_, _, _, _)
\* the sum over j = k .. T - t of g^j * r[t + j]
DiscountedSum(r, g, t, k) ==
    IF t + k > Len(r) THEN 0
    ELSE Power(g, k) * r[t + k] + DiscountedSum(r, g, t, k + 1)

\* C14: the returns learn hands to the normalizer have one entry per reward,
\* the last equal to the last reward and every other equal to its reward
\* plus the discount times the next return, which is the sum over k of
\* discount^k * reward[t + k]; with discount 0 they are the rewards unchanged.
C14_ReturnCalculation ==
    learnCalls >= 1 =>
        /\ Len(returns) = T
        /\ returns[T] = Rewards[T]
        /\ \A t \in 1..(T - 1) :
              returns[t] = Rewards[t] + discount * returns[t + 1]
        /\ \A t \in 1..T : returns[t] = DiscountedSum(Rewards, discount, t, 0)
        /\ discount = 0 => returns = Rewards

\* a learn call on two or more rewards whose returns look ahead
C14_Witness ==
    /\ lastOp = "learn" /\ T >= 2 /\ discount = 1
    /\ returns # Rewards
    /\ returns[1] = Rewards[1] + returns[2]

\* C15: after each act call, for every action dimension i, 'mean i' has
\* gained one entry equal to the policy's i-th mean and 'stdevs i' one entry
\* equal to the policy's i-th standard deviation.  (The code appends the
\* last mean to 'stdevs i'.)
C15_ActDiagnostics ==
    lastOp = "act" =>
        \A i \in 1..ActionSize :
            LET means == Entries(memory_info, <<"mean", i - 1>>)
                stdevs == Entries(memory_info, <<"stdevs", i - 1>>)
            IN /\ Len(means) = actCalls
               /\ means[actCalls] = output.means[i]
               /\ Len(stdevs) = actCalls
               /\ stdevs[actCalls] = output.stdevs[i]

\* the 'losses' diagnostic, and a batch whose rows of obs or of actions are
\* not as many as its rewards
Losses == Entries(memory_info, <<"losses", 0>>)
Mismatched == batch.obs # T \/ batch.actions # T

\* C16: a learn call on a well-formed batch, with a policy whose improve
\* returns a loss, returns that loss and appends it once to 'losses', which
\* after N such calls holds N losses.  (The code raises NameError before
\* improve is invoked: no loss is returned or appended.)
C16_LossRecorded ==
    (lastOp = "learn" /\ policy_improve = "returns" /\ ~Mismatched) =>
        /\ err = "none"
        /\ Len(Losses) >= 1
        /\ Losses[Len(Losses)] \in LossValues

\* C17: when policy.improve fails, learn fails with that failure, having
\* invoked improve once for the batch and appended no loss.  (The code
\* raises NameError before improve is invoked: improve's failure never
\* reaches the caller.)
C17_ImproveFailurePropagates ==
    (lastOp = "learn" /\ policy_improve = "raises") =>
        /\ err = "ImproveError"
        /\ improveCalls = learnCalls
        /\ Losses = <<>>

\* C18: a learn call whose batch has mismatched lengths fails with
\* BatchShapeError before policy.improve is invoked and records no loss.
\* (The code compares no lengths.)
C18_BatchShapeChecked ==
    (lastOp = "learn" /\ Mismatched) =>
        /\ err = "BatchShapeError"
        /\ improveCalls < learnCalls
        /\ Len(Losses) < learnCalls

\* C19: a random draw has start < table_length - episode_length and
\* end < table_length: the window that ends at the last row, the one the
\* fixed sampler returns, is never drawn.
C19_RandomNeverLatest ==
    (RandomCalled /\ window # <<>>) =>
        /\ window[1] < N - L
        /\ window[2] < N
        /\ window # <<N - L, N>>

\* the last window random sampling can draw, one row short of the table's end
C19_Witness ==
    RandomCalled /\ window # <<>> /\ L >= 1 /\ window[2] = N - 1

\* self.episode_sample holds a value that is neither 'fixed' nor 'random'
Unrecognised == cls_episode_sample \notin {"fixed", "random", "absent"}

\* C20: a value of episode_sample that is neither 'fixed' nor 'random' is
\* not rejected by the constructor, the sampler stays that value, and every
\* reset fails before a window is sampled or sliced.
C20_UnrecognisedSurfacesAtReset ==
    Unrecognised =>
        /\ phase # "failed"
        /\ lastOp = "__init__" => err = "none"
        /\ phase = "constructed" =>
              /\ episode_sample = cls_episode_sample
              /\ episode = <<>>
              /\ State = "UNINITIALIZED"
        /\ lastOp = "reset" => (err = "TypeError" /\ window = <<>>)

\* the first reset of an environment constructed with such a value
C20_Witness ==
    Unrecognised /\ lastOp = "reset" /\ err = "TypeError" /\ window = <<>>

====
